---- MODULE Spec2Model ----
(***************************************************************************)
(* Model of package dirhash (HashDir, HashFile, escape) and of the command *)
(* dirhash/main.go that calls it.                                          *)
(*                                                                         *)
(* Strings are sequences of byte values (0..255), so that sort.Strings and *)
(* the pseudo-file are compared on the literal bytes.  A path is the       *)
(* sequence of its components (path + "/" + x.Name()).  The filesystem is  *)
(* the environment: it is built while no hash is running and then read by  *)
(* os.Open, File.Stat, File.Readdir and ioutil.ReadFile, each of which may *)
(* fail.  sha256 is modelled as collision-free (an injective function of   *)
(* the bytes written to it); the fixed 32-byte width is not modelled.      *)
(***************************************************************************)
EXTENDS Integers, Sequences, FiniteSets, TLC

VARIABLES fs, stack, ret, events, logOut, results, calls, exit, root,
          escIn, escOut

vars == <<fs, stack, ret, events, logOut, results, calls, exit, root,
          escIn, escOut>>

(***************************************************************************)
(* Bounds of the model                                                     *)
(***************************************************************************)
MaxNodes == 2
MaxDepth == 2
MaxCalls == 2
MaxNameLen == 3

(***************************************************************************)
(* Bytes the code names                                                    *)
(***************************************************************************)
DQ == 34
BS == 92
LF == 10
SP == 32
EQ == 61

Names == { <<65>>, <<DQ, BS>> }
Contents == { <<>>, <<EQ, LF>> }
EscAlphabet == { DQ, BS, 97, LF }

Paths == UNION { [1..k -> Names] : k \in 0..MaxDepth }

NoEntry == [kind |-> "none", data |-> <<>>]
DirNode == [kind |-> "dir", data |-> <<>>]
FileNode(c) == [kind |-> "file", data |-> c]
LinkNode(c) == [kind |-> "symlink", data |-> c]

Range(s) == { s[i] : i \in DOMAIN s }
Perms(S) == { s \in [1..Cardinality(S) -> S] : Range(s) = S }
Last(s) == s[Len(s)]
Front(s) == SubSeq(s, 1, Len(s) - 1)

\* x with every byte old replaced by the bytes new
RECURSIVE ReplaceAll(_, _, _)
ReplaceAll(x, old, new) ==
    IF x = <<>> THEN <<>>
    ELSE IF Head(x) = old THEN new \o ReplaceAll(Tail(x), old, new)
    ELSE <<Head(x)>> \o ReplaceAll(Tail(x), old, new)

RECURSIVE Flatten(_)
Flatten(ss) == IF ss = <<>> THEN <<>> ELSE Head(ss) \o Flatten(Tail(ss))

(***************************************************************************)
(* Values returned by the Go functions                                     *)
(***************************************************************************)
NilHash == <<-1>>
NilErr == <<"nil", <<>>>>
ErrNotDir == <<"not a directory", <<>>>>
IoErr(op, p) == <<op, p>>
NoRet == [set |-> FALSE, hash |-> NilHash, err |-> NilErr]
NoOutput == <<-1>>

EmptyMap == [n \in {} |-> <<>>]
MapSet(m, k, v) == [n \in DOMAIN m \cup {k} |-> IF n = k THEN v ELSE m[n]]

(***************************************************************************)
(* escape: strings.NewReplacer("\\", "\\\\", "\"", "\\\"").Replace(x), one *)
(* pass over the bytes of x.                                               *)
(***************************************************************************)
\* escape that leaves the name as it is
escapeNone(x) == x

\* escape as two passes in the wrong order: quotes first, then backslashes
escapeQuotesFirst(x) ==
    ReplaceAll(ReplaceAll(x, DQ, <<BS, DQ>>), BS, <<BS, BS>>)

RECURSIVE escape(_)
escape(x) ==
    IF x = <<>> THEN <<>>
    ELSE IF Head(x) = BS THEN <<BS, BS>> \o escape(Tail(x))
    ELSE IF Head(x) = DQ THEN <<BS, DQ>> \o escape(Tail(x))
    ELSE <<Head(x)>> \o escape(Tail(x))

(***************************************************************************)
(* sha256.New(); Write(b); Sum(nil)                                        *)
(***************************************************************************)
Sha256Sum(b) == b

(***************************************************************************)
(* fmt.Sprintf("%X", hash): two capital hexadecimal digits per byte        *)
(***************************************************************************)
HexDigit(d) == IF d < 10 THEN 48 + d ELSE 55 + d

RECURSIVE SprintfX(_)
SprintfX(hash) ==
    IF hash = <<>> THEN <<>>
    ELSE <<HexDigit(Head(hash) \div 16), HexDigit(Head(hash) % 16)>>
            \o SprintfX(Tail(hash))

(***************************************************************************)
(* sort.Strings: ascending byte-wise order of the strings                  *)
(***************************************************************************)
RECURSIVE StrLess(_, _)
StrLess(a, b) ==
    IF b = <<>> THEN FALSE
    ELSE IF a = <<>> THEN TRUE
    ELSE IF Head(a) # Head(b) THEN Head(a) < Head(b)
    ELSE StrLess(Tail(a), Tail(b))

\* the key list left in the order the map was ranged over
SortStringsNone(s) == s

SortStrings(s) ==
    CHOOSE t \in Perms(Range(s)) :
        \A i \in 1..(Len(t) - 1) : StrLess(t[i], t[i + 1])

(***************************************************************************)
(* The pseudo-file of lines 103-111                                        *)
(***************************************************************************)
Line(hex, name) == hex \o <<SP, DQ>> \o escape(name) \o <<DQ, LF>>

\* the "=" line written only in front of a non-empty files section
PseudoFileSepIfFiles(dirPaths, filePaths, dirs, files) ==
    Flatten([i \in 1..Len(dirPaths) |-> Line(dirs[dirPaths[i]], dirPaths[i])])
    \o (IF filePaths = <<>> THEN <<>> ELSE <<EQ, LF>>)
    \o Flatten([i \in 1..Len(filePaths) |-> Line(files[filePaths[i]], filePaths[i])])

PseudoFile(dirPaths, filePaths, dirs, files) ==
    Flatten([i \in 1..Len(dirPaths) |-> Line(dirs[dirPaths[i]], dirPaths[i])])
    \o <<EQ, LF>>
    \o Flatten([i \in 1..Len(filePaths) |-> Line(files[filePaths[i]], filePaths[i])])

(***************************************************************************)
(* log.Printf("Hashing directory:\n\"\"\"\n%s\"\"\"\n", pseudoFile)        *)
(***************************************************************************)
LogHeader == <<72, 97, 115, 104, 105, 110, 103, SP, 100, 105, 114, 101, 99,
               116, 111, 114, 121, 58, LF, DQ, DQ, DQ, LF>>

\* the pseudo-file logged without the text around it
LogPrintfRaw(out, pseudoFile) == Append(out, pseudoFile)

LogPrintf(out, pseudoFile) ==
    Append(out, LogHeader \o pseudoFile \o <<DQ, DQ, DQ, LF>>)

(***************************************************************************)
(* info.IsDir() of line 61 (the opened file) and x.IsDir() of line 75 (an  *)
(* entry of the listing)                                                   *)
(***************************************************************************)
\* the check of line 61 never failing
InfoIsDirAlways(node) == TRUE

InfoIsDir(node) == node.kind = "dir"

\* every entry that is not a regular file taken for a directory
EntryIsDirNotRegular(node) == node.kind # "file"

EntryIsDir(node) == node.kind = "dir"

ChildNames(p) ==
    IF Len(p) < MaxDepth
    THEN { n \in Names : fs[Append(p, n)] # NoEntry }
    ELSE {}

NodeCount == Cardinality({ p \in Paths : p # <<>> /\ fs[p] # NoEntry })

(***************************************************************************)
(* One activation of HashDir                                               *)
(***************************************************************************)
NewFrame(p) ==
    [path |-> p, pc |-> "open", contents |-> <<>>, i |-> 1,
     dirs |-> EmptyMap, files |-> EmptyMap, pseudoFile |-> <<>>]

Top == Last(stack)
Running(pc) == stack # <<>> /\ Top.pc = pc
SetTop(f) == [stack EXCEPT ![Len(stack)] = f]
Child == Top.contents[Top.i]
ChildPath == Append(Top.path, Child.name)

Init ==
    /\ fs = [p \in Paths |-> IF p = <<>> THEN DirNode ELSE NoEntry]
    /\ stack = <<>>
    /\ ret = NoRet
    /\ events = <<>>
    /\ logOut = <<>>
    /\ results = {}
    /\ calls = 0
    /\ exit = 0
    /\ root = <<>>
    /\ escIn = <<>>
    /\ escOut = NoOutput

(***************************************************************************)
(* The environment: the tree is built before the first invocation.         *)
(***************************************************************************)
CanCreate(p, n) ==
    /\ calls = 0
    /\ stack = <<>>
    /\ Len(p) < MaxDepth
    /\ fs[p] = DirNode
    /\ fs[Append(p, n)] = NoEntry
    /\ NodeCount < MaxNodes

Mkdir ==
    \E p \in Paths, n \in Names :
        /\ CanCreate(p, n)
        /\ fs' = [fs EXCEPT ![Append(p, n)] = DirNode]
        /\ UNCHANGED <<stack, ret, events, logOut, results, calls, exit, root,
                       escIn, escOut>>

WriteFile ==
    \E p \in Paths, n \in Names, c \in Contents :
        /\ CanCreate(p, n)
        /\ fs' = [fs EXCEPT ![Append(p, n)] = FileNode(c)]
        /\ UNCHANGED <<stack, ret, events, logOut, results, calls, exit, root,
                       escIn, escOut>>

Symlink ==
    \E p \in Paths, n \in Names :
        /\ CanCreate(p, n)
        /\ fs' = [fs EXCEPT ![Append(p, n)] = LinkNode(<<>>)]
        /\ UNCHANGED <<stack, ret, events, logOut, results, calls, exit, root,
                       escIn, escOut>>

(***************************************************************************)
(* main, line 14: the call of dirhash.HashDir on the -dir flag.  Every run  *)
(* of the command is a process of its own, whose log output starts empty;  *)
(* what earlier runs printed is kept in results.                           *)
(***************************************************************************)
Call ==
    \E p \in Paths :
        /\ stack = <<>>
        /\ ~ret.set
        /\ exit = 0
        /\ calls < MaxCalls
        /\ fs[p] # NoEntry
        /\ stack' = <<NewFrame(p)>>
        /\ root' = p
        /\ events' = <<>>
        /\ logOut' = <<>>
        /\ calls' = calls + 1
        /\ UNCHANGED <<fs, ret, results, exit, escIn, escOut>>

Return(hash, err) ==
    /\ stack' = Front(stack)
    /\ ret' = [set |-> TRUE, hash |-> hash, err |-> err]

Event(op, p, ok) == events' = Append(events, <<op, p, ok>>)

(***************************************************************************)
(* HashDir, lines 48-69                                                    *)
(***************************************************************************)
OpenOk ==
    /\ Running("open")
    /\ fs[Top.path] # NoEntry
    /\ Event("open", Top.path, TRUE)
    /\ stack' = SetTop([Top EXCEPT !.pc = "stat"])
    /\ UNCHANGED <<fs, ret, logOut, results, calls, exit, root, escIn, escOut>>

OpenFail ==
    /\ Running("open")
    /\ Event("open", Top.path, FALSE)
    /\ Return(NilHash, IoErr("open", Top.path))
    /\ UNCHANGED <<fs, logOut, results, calls, exit, root, escIn, escOut>>

StatOk ==
    /\ Running("stat")
    /\ Event("stat", Top.path, TRUE)
    /\ IF InfoIsDir(fs[Top.path])
       THEN /\ stack' = SetTop([Top EXCEPT !.pc = "readdir"])
            /\ UNCHANGED ret
       ELSE Return(NilHash, ErrNotDir)
    /\ UNCHANGED <<fs, logOut, results, calls, exit, root, escIn, escOut>>

StatFail ==
    /\ Running("stat")
    /\ Event("stat", Top.path, FALSE)
    /\ Return(NilHash, IoErr("stat", Top.path))
    /\ UNCHANGED <<fs, logOut, results, calls, exit, root, escIn, escOut>>

ReaddirOk ==
    /\ Running("readdir")
    /\ fs[Top.path].kind = "dir"
    /\ \E order \in Perms(ChildNames(Top.path)) :
          stack' = SetTop([Top EXCEPT
              !.pc = "loop",
              !.contents = [k \in 1..Len(order) |->
                  [name |-> order[k],
                   isDir |-> EntryIsDir(fs[Append(Top.path, order[k])])]]])
    /\ Event("readdir", Top.path, TRUE)
    /\ UNCHANGED <<fs, ret, logOut, results, calls, exit, root, escIn, escOut>>

ReaddirFail ==
    /\ Running("readdir")
    /\ Event("readdir", Top.path, FALSE)
    /\ Return(NilHash, IoErr("readdir", Top.path))
    /\ UNCHANGED <<fs, logOut, results, calls, exit, root, escIn, escOut>>

(***************************************************************************)
(* HashDir, lines 74-88: the loop over the directory's contents            *)
(***************************************************************************)
LoopDir ==
    /\ Running("loop")
    /\ Top.i <= Len(Top.contents)
    /\ Child.isDir
    /\ stack' = Append(SetTop([Top EXCEPT !.pc = "wait"]), NewFrame(ChildPath))
    /\ UNCHANGED <<fs, ret, events, logOut, results, calls, exit, root,
                   escIn, escOut>>

RecvDirOk ==
    /\ Running("wait")
    /\ ret.set
    /\ ret.err = NilErr
    /\ stack' = SetTop([Top EXCEPT
           !.pc = "loop",
           !.dirs = MapSet(Top.dirs, Child.name, SprintfX(ret.hash)),
           !.i = Top.i + 1])
    /\ ret' = NoRet
    /\ UNCHANGED <<fs, events, logOut, results, calls, exit, root, escIn, escOut>>

\* the child's error replaced by one that names the parent
RecvDirErrWrapped ==
    /\ Running("wait")
    /\ ret.set
    /\ ret.err # NilErr
    /\ Return(NilHash, IoErr("hashdir", Top.path))
    /\ UNCHANGED <<fs, events, logOut, results, calls, exit, root, escIn, escOut>>

RecvDirErr ==
    /\ Running("wait")
    /\ ret.set
    /\ ret.err # NilErr
    /\ Return(NilHash, ret.err)
    /\ UNCHANGED <<fs, events, logOut, results, calls, exit, root, escIn, escOut>>

(***************************************************************************)
(* HashFile, lines 129-145, called from line 82                            *)
(***************************************************************************)
LoopFileOk ==
    /\ Running("loop")
    /\ Top.i <= Len(Top.contents)
    /\ ~Child.isDir
    /\ fs[ChildPath].kind \in {"file", "symlink"}
    /\ Event("readfile", ChildPath, TRUE)
    /\ stack' = SetTop([Top EXCEPT
           !.files = MapSet(Top.files, Child.name,
                            SprintfX(Sha256Sum(fs[ChildPath].data))),
           !.i = Top.i + 1])
    /\ UNCHANGED <<fs, ret, logOut, results, calls, exit, root, escIn, escOut>>

\* an unreadable file skipped and the loop carried on
LoopFileFailSkip ==
    /\ Running("loop")
    /\ Top.i <= Len(Top.contents)
    /\ ~Child.isDir
    /\ Event("readfile", ChildPath, FALSE)
    /\ stack' = SetTop([Top EXCEPT !.i = Top.i + 1])
    /\ UNCHANGED <<fs, ret, logOut, results, calls, exit, root, escIn, escOut>>

LoopFileFail ==
    /\ Running("loop")
    /\ Top.i <= Len(Top.contents)
    /\ ~Child.isDir
    /\ Event("readfile", ChildPath, FALSE)
    /\ Return(NilHash, IoErr("readfile", ChildPath))
    /\ UNCHANGED <<fs, logOut, results, calls, exit, root, escIn, escOut>>

(***************************************************************************)
(* HashDir, lines 90-112: sorted key lists, pseudo-file, log               *)
(***************************************************************************)
Build ==
    /\ Running("loop")
    /\ Top.i > Len(Top.contents)
    /\ \E dirKeys \in Perms(DOMAIN Top.dirs), fileKeys \in Perms(DOMAIN Top.files) :
        LET pf == PseudoFile(SortStrings(dirKeys), SortStrings(fileKeys),
                             Top.dirs, Top.files)
        IN /\ stack' = SetTop([Top EXCEPT !.pc = "hash", !.pseudoFile = pf])
           /\ logOut' = LogPrintf(logOut, pf)
    /\ UNCHANGED <<fs, ret, events, results, calls, exit, root, escIn, escOut>>

(***************************************************************************)
(* HashDir, lines 115-121                                                  *)
(***************************************************************************)
HashPseudoFile ==
    /\ Running("hash")
    /\ Return(Sha256Sum(Top.pseudoFile), NilErr)
    /\ UNCHANGED <<fs, events, logOut, results, calls, exit, root, escIn, escOut>>

(***************************************************************************)
(* main, lines 15-20.  Next to the digest printed, the record of a run     *)
(* keeps whether Readdir listed the root's entries in ascending order of   *)
(* their names.                                                            *)
(***************************************************************************)
ListedAscending ==
    LET IsRootChild(e) == e[1] \in {"open", "readfile"} /\ Len(e[2]) = Len(root) + 1
        listed == SelectSeq(events, IsRootChild)
    IN \A a, b \in DOMAIN listed :
          a < b => StrLess(Last(listed[a][2]), Last(listed[b][2]))

MainPrint ==
    /\ stack = <<>>
    /\ ret.set
    /\ ret.err = NilErr
    /\ exit = 0
    /\ results' = results \cup
           {[path |-> root, hex |-> SprintfX(ret.hash), ascending |-> ListedAscending]}
    /\ ret' = NoRet
    /\ UNCHANGED <<fs, stack, events, logOut, calls, exit, root, escIn, escOut>>

MainExit ==
    /\ stack = <<>>
    /\ ret.set
    /\ ret.err # NilErr
    /\ exit = 0
    /\ exit' = 1
    /\ UNCHANGED <<fs, stack, ret, events, logOut, results, calls, root,
                   escIn, escOut>>

Next ==
    \/ Mkdir \/ WriteFile \/ Symlink
    \/ Call
    \/ OpenOk \/ OpenFail \/ StatOk \/ StatFail \/ ReaddirOk \/ ReaddirFail
    \/ LoopDir \/ RecvDirOk \/ RecvDirErr
    \/ LoopFileOk \/ LoopFileFail
    \/ Build \/ HashPseudoFile
    \/ MainPrint \/ MainExit

Spec == Init /\ [][Next]_vars

(***************************************************************************)
(* escape applied to one file name drawn from the names over EscAlphabet   *)
(***************************************************************************)
RECURSIVE StringsUpTo(_)
StringsUpTo(n) ==
    IF n = 0 THEN { <<>> }
    ELSE LET shorter == StringsUpTo(n - 1)
         IN shorter \cup { Append(x, b) : x \in shorter, b \in EscAlphabet }

InitEscape ==
    /\ fs = [p \in Paths |-> IF p = <<>> THEN DirNode ELSE NoEntry]
    /\ stack = <<>>
    /\ ret = NoRet
    /\ events = <<>>
    /\ logOut = <<>>
    /\ results = {}
    /\ calls = 0
    /\ exit = 0
    /\ root = <<>>
    /\ escIn \in StringsUpTo(MaxNameLen)
    /\ escOut = NoOutput

EscapeCall ==
    /\ escOut = NoOutput
    /\ escOut' = escape(escIn)
    /\ UNCHANGED <<fs, stack, ret, events, logOut, results, calls, exit, root,
                   escIn>>

NextEscape == EscapeCall

SpecEscape == InitEscape /\ [][NextEscape]_vars

(***************************************************************************)
(* Reading a pseudo-file back by the grammar of the package comment:       *)
(* lines  HEX SP DQ escaped-name DQ LF,  then  EQ LF,  then lines again.   *)
(***************************************************************************)
HexUpper == (48..57) \cup (65..70)

RECURSIVE ScanHex(_, _)
ScanHex(pf, k) ==
    IF k <= Len(pf) /\ pf[k] \in HexUpper THEN ScanHex(pf, k + 1) ELSE k

RECURSIVE ScanQuoted(_, _)
ScanQuoted(pf, k) ==
    IF k > Len(pf) THEN 0
    ELSE IF pf[k] = DQ THEN k
    ELSE IF pf[k] = BS THEN ScanQuoted(pf, k + 2)
    ELSE ScanQuoted(pf, k + 1)

ParseLine(pf, k) ==
    LET h == ScanHex(pf, k)
        opened == h + 1 <= Len(pf) /\ pf[h] = SP /\ pf[h + 1] = DQ
        q == IF opened THEN ScanQuoted(pf, h + 2) ELSE 0
        closed == q # 0 /\ q + 1 <= Len(pf) /\ pf[q + 1] = LF
    IN [ok |-> closed,
        hex |-> IF closed THEN SubSeq(pf, k, h - 1) ELSE <<>>,
        name |-> IF closed THEN SubSeq(pf, h + 2, q - 1) ELSE <<>>,
        next |-> q + 2]

RECURSIVE ParseSection(_, _, _)
ParseSection(pf, k, acc) ==
    IF k > Len(pf) \/ pf[k] = EQ
    THEN [ok |-> TRUE, lines |-> acc, next |-> k]
    ELSE LET l == ParseLine(pf, k)
         IN IF l.ok
            THEN ParseSection(pf, l.next, Append(acc, [hex |-> l.hex, name |-> l.name]))
            ELSE [ok |-> FALSE, lines |-> acc, next |-> k]

ParseListing(pf) ==
    LET d == ParseSection(pf, 1, <<>>)
        sep == d.ok /\ d.next + 1 <= Len(pf) /\ pf[d.next] = EQ /\ pf[d.next + 1] = LF
        f == IF sep THEN ParseSection(pf, d.next + 2, <<>>)
             ELSE [ok |-> FALSE, lines |-> <<>>, next |-> 0]
    IN [ok |-> sep /\ f.ok /\ f.next = Len(pf) + 1,
        dirs |-> d.lines,
        files |-> f.lines]

RECURSIVE Unescape(_)
Unescape(e) ==
    IF e = <<>> THEN <<>>
    ELSE IF Head(e) = BS /\ Len(e) >= 2
         THEN <<e[2]>> \o Unescape(SubSeq(e, 3, Len(e)))
         ELSE <<Head(e)>> \o Unescape(Tail(e))

(***************************************************************************)
(* What the tree holds, for the statements about it                        *)
(***************************************************************************)
Kids(p) == ChildNames(p)
DirKids(p) == { n \in Kids(p) : fs[Append(p, n)].kind = "dir" }
OtherKids(p) == Kids(p) \ DirKids(p)

Below(p) ==
    { q \in Paths : /\ Len(q) > Len(p)
                    /\ SubSeq(q, 1, Len(p)) = p
                    /\ fs[q] # NoEntry }

\* The tree under p as HashDir can observe it: relative path, directory or
\* not, and the bytes read.
Tree(p) ==
    { <<SubSeq(q, Len(p) + 1, Len(q)), fs[q].kind = "dir", fs[q].data>> :
        q \in Below(p) }

EventSet == Range(events)
FailedEvents == { k \in DOMAIN events : ~events[k][3] }
HashDirTargets == { e[2] : e \in { x \in EventSet : x[1] = "open" } }

(***************************************************************************)
(* The claims                                                              *)
(***************************************************************************)
Listing == ParseListing(Top.pseudoFile)
Ascending(lines) ==
    \A a, b \in DOMAIN lines : a < b => StrLess(lines[a].name, lines[b].name)

\* C1: in every pseudo-file HashDir builds, the lines of the directories
\* section and the lines of the files section are each in ascending byte
\* order of the escaped file name as it is written between the quotes.
C1_SortedByEscapedName ==
    Running("hash") =>
        /\ Listing.ok
        /\ Ascending(Listing.dirs)
        /\ Ascending(Listing.files)

\* C2: two successful runs of HashDir over the same tree print the same
\* digest, whatever order Readdir returned the entries in and whatever order
\* the maps of child digests were ranged over.
C2_OrderIndependent ==
    \A r1, r2 \in results :
        Tree(r1.path) = Tree(r2.path) => r1.hex = r2.hex

C2_Witness ==
    \E r1, r2 \in results :
        /\ r1.path = r2.path
        /\ r1.ascending # r2.ascending
        /\ Cardinality(DirKids(r1.path)) >= 1
        /\ Cardinality(OtherKids(r1.path)) >= 1

\* C3: the pseudo-file that is hashed reads back as one line per
\* subdirectory, the line "=" exactly once, one line per file and nothing
\* else; every line is capital hexadecimal digits, a space, the quoted
\* escaped name and a newline; there is one line per enumerated child, and
\* the "=" line is there also when a section is empty (first when there is
\* no subdirectory, last when there is no file).
C3_ListingFormat ==
    Running("hash") =>
        LET pf == Top.pseudoFile
            nDirs == Cardinality({ k \in DOMAIN Top.contents : Top.contents[k].isDir })
            nFiles == Len(Top.contents) - nDirs
        IN /\ Listing.ok
           /\ Len(Listing.dirs) = nDirs
           /\ Len(Listing.files) = nFiles
           /\ { Unescape(Listing.dirs[k].name) : k \in DOMAIN Listing.dirs }
                 = DirKids(Top.path)
           /\ { Unescape(Listing.files[k].name) : k \in DOMAIN Listing.files }
                 = OtherKids(Top.path)
           /\ \A k \in DOMAIN Listing.files :
                 Listing.files[k].hex
                   = SprintfX(Sha256Sum(
                       fs[Append(Top.path, Unescape(Listing.files[k].name))].data))
           /\ nDirs = 0 => SubSeq(pf, 1, 2) = <<EQ, LF>>
           /\ nFiles = 0 => SubSeq(pf, Len(pf) - 1, Len(pf)) = <<EQ, LF>>

C3_Witness ==
    /\ Running("hash")
    /\ Cardinality(DirKids(Top.path)) = 0
    /\ Cardinality(OtherKids(Top.path)) = 2

C5_EscapeRoundTrip ==
    escOut # NoOutput =>
        /\ escOut = ReplaceAll(ReplaceAll(escIn, BS, <<BS, BS>>), DQ, <<BS, DQ>>)
        /\ Unescape(escOut) = escIn

C5_Witness ==
    /\ escOut # NoOutput
    /\ DQ \in Range(escIn)
    /\ BS \in Range(escIn)
    /\ Len(escOut) = Len(escIn) + 2

\* C6: a HashDir whose path was opened and is not a directory returns the
\* "not a directory" error and no digest; that path is never enumerated and
\* never read as a file, and no digest is printed for it.
C6_NotADirectory ==
    /\ \A p \in HashDirTargets :
          fs[p].kind # "dir" =>
              /\ <<"readdir", p, TRUE>> \notin EventSet
              /\ <<"readdir", p, FALSE>> \notin EventSet
              /\ <<"readfile", p, TRUE>> \notin EventSet
              /\ <<"readfile", p, FALSE>> \notin EventSet
    /\ \A k \in DOMAIN events :
          (events[k][1] = "stat" /\ events[k][3] /\ fs[events[k][2]].kind # "dir") =>
              /\ k = Len(events)
              /\ ret = [set |-> TRUE, hash |-> NilHash, err |-> ErrNotDir]
    /\ \A r \in results : fs[r.path].kind = "dir"

C6_Witness ==
    /\ ret.set
    /\ ret.err = ErrNotDir
    /\ fs[root].kind = "file"
    /\ stack = <<>>

\* C7: once a call on the filesystem has failed, HashDir returns no digest
\* and the error of that very call, the same at every level it is passed
\* through; and a digest is returned for the root only when every directory
\* under it was listed and every other entry under it was read.
C7_NoPartialResult ==
    /\ \A k \in FailedEvents :
          ret = [set |-> TRUE, hash |-> NilHash,
                 err |-> IoErr(events[k][1], events[k][2])]
    /\ (ret.set /\ ret.err # NilErr) =>
          /\ ret.hash = NilHash
          /\ events # <<>>
          /\ \/ ~Last(events)[3] /\ ret.err = IoErr(Last(events)[1], Last(events)[2])
             \/ Last(events)[1] = "stat" /\ Last(events)[3] /\ ret.err = ErrNotDir
    /\ (stack = <<>> /\ ret.set /\ ret.err = NilErr) =>
          /\ ret.hash # NilHash
          /\ <<"readdir", root, TRUE>> \in EventSet
          /\ \A q \in Below(root) :
                IF fs[q].kind = "dir"
                THEN <<"readdir", q, TRUE>> \in EventSet
                ELSE <<"readfile", q, TRUE>> \in EventSet

C7_Witness ==
    /\ stack = <<>>
    /\ root = <<>>
    /\ ret.set
    /\ ret.err[1] = "readfile"
    /\ Len(ret.err[2]) = 2

\* C8 as claimed: a step of HashDir or HashFile changes neither the
\* filesystem nor the log output.
C8_NoSideEffect ==
    [][stack # <<>> => (fs' = fs /\ logOut' = logOut)]_vars

\* C8 as amended: a step of HashDir or HashFile never changes the
\* filesystem or what main printed; the log output changes only when a
\* directory's pseudo-file has been built, by exactly one record that is
\* that pseudo-file in the format of log.Printf, and every pseudo-file that
\* goes on to be hashed has been logged so.
C8_ReadsAndLogsOnly ==
    [][stack # <<>> =>
          /\ fs' = fs
          /\ results' = results
          /\ IF stack' # <<>> /\ Last(stack').pc = "hash" /\ Top.pc # "hash"
             THEN /\ Top.pc = "loop"
                  /\ Top.i > Len(Top.contents)
                  /\ logOut' = Append(logOut,
                        LogHeader \o Last(stack').pseudoFile \o <<DQ, DQ, DQ, LF>>)
             ELSE logOut' = logOut]_vars

C8_Witness ==
    /\ Running("hash")
    /\ Len(stack) = 2
    /\ calls = 1
    /\ Len(logOut) = 1

\* C9: after the first failing call on the filesystem nothing more is
\* opened, listed or read, nothing more is logged or printed, every HashDir
\* still active is an ancestor waiting for its child and only returns, no
\* pseudo-file is built, and the error held is that of the first failure.
C9_ShortCircuit ==
    [][FailedEvents # {} =>
          LET k == CHOOSE j \in FailedEvents : TRUE
          IN /\ FailedEvents = {Len(events)}
             /\ events' = events
             /\ logOut' = logOut
             /\ results' = results
             /\ ret'.set
             /\ ret'.hash = NilHash
             /\ ret'.err = IoErr(events[k][1], events[k][2])
             /\ Len(stack') <= Len(stack)
             /\ \A j \in DOMAIN stack' : stack'[j].pc = "wait"]_vars

C9_Witness ==
    /\ FailedEvents # {}
    /\ ret.set
    /\ \E q \in Below(root) : \A e \in EventSet : e[2] # q

\* C10 as claimed: HashFile is called only on regular files.
C10_HashFileOnlyRegular ==
    \A e \in EventSet : e[1] = "readfile" => fs[e[2]].kind = "file"

\* C10 as amended: HashDir calls itself on a child exactly when the listing
\* says the child is a directory, and calls HashFile on every other child,
\* regular file or not (a symbolic link too); the former are the keys of the
\* directories section and the latter those of the files section.
C10_Classification ==
    /\ \A e \in EventSet :
          /\ (e[1] = "open" /\ e[2] # root) => fs[e[2]].kind = "dir"
          /\ e[1] = "readfile" => (fs[e[2]].kind \in {"file", "symlink"} /\ e[2] # root)
    /\ \A j \in DOMAIN stack :
          /\ DOMAIN stack[j].dirs \subseteq DirKids(stack[j].path)
          /\ DOMAIN stack[j].files \subseteq OtherKids(stack[j].path)
          /\ stack[j].pc = "hash" =>
                /\ DOMAIN stack[j].dirs = DirKids(stack[j].path)
                /\ DOMAIN stack[j].files = OtherKids(stack[j].path)
                /\ \A n \in DirKids(stack[j].path) :
                      <<"open", Append(stack[j].path, n), TRUE>> \in EventSet
                /\ \A n \in OtherKids(stack[j].path) :
                      <<"readfile", Append(stack[j].path, n), TRUE>> \in EventSet

C10_Witness ==
    /\ Running("hash")
    /\ \E n \in DOMAIN Top.files : fs[Append(Top.path, n)].kind = "symlink"
    /\ DOMAIN Top.dirs # {}

====
